---- MODULE Spec2Model ----
(***************************************************************************)
(* PolicyBot, backend/main.py: the /chat request handler, the confidence   *)
(* mapper and the keyword classifier (follow-up questions, explanation     *)
(* labels).                                                                *)
(*                                                                         *)
(* Texts that the code inspects character by character (the request        *)
(* message, the retrieved chunks, the keywords) are sequences of           *)
(* one-character strings.  Texts it only passes on (responses, questions,  *)
(* labels, exception messages) are plain strings.                          *)
(*                                                                         *)
(* Scores are fixed-point, in units of 0.0001; confidence_score is in      *)
(* units of 0.001.  A mean is kept as the pair sum / count.                *)
(***************************************************************************)
EXTENDS Integers, Sequences, FiniteSets, TLC

VARIABLES
    pc,             \* position of the handler / of the function under study
    message,        \* req.message
    user_input,     \* req.message.strip().lower()
    results,        \* what similarity_search_with_score returned
    filtered,       \* the (doc, score) pairs that passed the threshold
    avg_score,      \* [num, den]: sum(score) / len(filtered)
    confidence,     \* map_confidence(avg_score)
    relevant_docs,  \* [doc.page_content for doc, _ in filtered]
    context,        \* "\n\n".join(relevant_docs)
    followups,      \* generate_followups(context)
    explanations,   \* extract_explanations(relevant_docs), as the set of its elements
    response,       \* the dict the handler returns
    caught,         \* <<>>, or <<call site, str(e)>> of the exception in `except`
    searchCalls,    \* calls of vectorstore.similarity_search_with_score in this request
    llmCalls        \* calls of agent.invoke in this request

vars == <<pc, message, user_input, results, filtered, avg_score, confidence,
          relevant_docs, context, followups, explanations, response, caught,
          searchCalls, llmCalls>>

---------------------------------------------------------------------------
(* str primitives *)

ASCII_UPPER == <<"A","B","C","D","E","F","G","H","I","J","K","L","M","N","O","P","Q","R","S","T","U","V","W","X","Y","Z">>
ASCII_LOWER == <<"a","b","c","d","e","f","g","h","i","j","k","l","m","n","o","p","q","r","s","t","u","v","w","x","y","z">>

\* the characters str.strip() removes (those of the model's alphabet)
WHITESPACE == {" ", "\t", "\n", "\r"}

\* the lower-case letter of each upper-case letter
UPPER_TO_LOWER ==
    [c \in {ASCII_UPPER[i] : i \in 1..Len(ASCII_UPPER)} |->
        ASCII_LOWER[CHOOSE i \in 1..Len(ASCII_UPPER) : ASCII_UPPER[i] = c]]

lower_char(c) == IF c \in DOMAIN UPPER_TO_LOWER THEN UPPER_TO_LOWER[c] ELSE c

\* str.lower()
lower(s) == [i \in 1..Len(s) |-> lower_char(s[i])]

RECURSIVE lstrip(_)
lstrip(s) == IF s # <<>> /\ Head(s) \in WHITESPACE THEN lstrip(Tail(s)) ELSE s

RECURSIVE rstrip(_)
rstrip(s) ==
    IF s # <<>> /\ s[Len(s)] \in WHITESPACE THEN rstrip(SubSeq(s, 1, Len(s) - 1)) ELSE s

\* str.strip()
strip(s) == rstrip(lstrip(s))

\* k in t, for strings
Contains(k, t) ==
    \E i \in 1..(Len(t) - Len(k) + 1) : \A j \in 1..Len(k) : t[i + j - 1] = k[j]

\* any(k in t for k in ks)
AnyIn(ks, t) == \E j \in 1..Len(ks) : Contains(ks[j], t)

\* sep.join(parts)
RECURSIVE Join(_, _)
Join(sep, parts) ==
    IF parts = <<>> THEN <<>>
    ELSE IF Len(parts) = 1 THEN parts[1]
    ELSE parts[1] \o sep \o Join(sep, Tail(parts))

ToSet(s) == {s[i] : i \in 1..Len(s)}

---------------------------------------------------------------------------
(* Configuration and fixed texts *)

SIMILARITY_THRESHOLD == 2500
HIGH_ABOVE == 6500
MEDIUM_ABOVE == 5000
SEARCH_K == 3
FOLLOWUP_LIMIT == 3

GREETINGS ==
    { <<"h","i">>, <<"h","e","l","l","o">>, <<"h","e","y">>, <<"g","o","o","d"," ","m","o","r","n","i","n","g">>, <<"g","o","o","d"," ","e","v","e","n","i","n","g">> }

GREETING_TEXT == "Hello! How can I assist you with IT Helpdesk related queries?"
REFUSAL_TEXT == "I can only help with IT Helpdesk related questions."
ERROR_PREFIX == "Error processing your request: "

---------------------------------------------------------------------------
(* map_confidence *)

\* variant: >= at both boundaries
map_confidence_inclusive(avg) ==
    IF avg.num >= HIGH_ABOVE * avg.den THEN "High"
    ELSE IF avg.num >= MEDIUM_ABOVE * avg.den THEN "Medium"
    ELSE "Low"

\* variant: the two tests in the other order
map_confidence_medium_first(avg) ==
    IF avg.num > MEDIUM_ABOVE * avg.den THEN "Medium"
    ELSE IF avg.num > HIGH_ABOVE * avg.den THEN "High"
    ELSE "Low"

\* map_confidence(avg_score)
map_confidence(avg) ==
    IF avg.num > HIGH_ABOVE * avg.den THEN "High"
    ELSE IF avg.num > MEDIUM_ABOVE * avg.den THEN "Medium"
    ELSE "Low"

---------------------------------------------------------------------------
(* generate_followups *)

\* the eight `if any(k in t ...)` blocks, in source order
FollowupRules == <<
    [ keywords  |-> << <<"p","a","s","s","w","o","r","d">>, <<"a","u","t","h","e","n","t","i","c","a","t","i","o","n">>, <<"m","f","a">>, <<"i","d","e","n","t","i","t","y">> >>,
      questions |-> << "How do I reset my password?",
                       "What are the password security requirements?",
                       "Is multi-factor authentication mandatory?" >> ],
    [ keywords  |-> << <<"p","r","i","v","i","l","e","g","e","d">>, <<"a","d","m","i","n">>, <<"e","l","e","v","a","t","e","d"," ","a","c","c","e","s","s">> >>,
      questions |-> << "Are admin accounts subject to additional controls?",
                       "Who approves privileged access?" >> ],
    [ keywords  |-> << <<"s","o","f","t","w","a","r","e">>, <<"a","p","p","l","i","c","a","t","i","o","n">>, <<"l","i","c","e","n","s","e">>, <<"i","n","s","t","a","l","l","a","t","i","o","n">> >>,
      questions |-> << "How do I request new software?",
                       "Can I install software without IT approval?",
                       "What happens if unlicensed software is installed?" >> ],
    [ keywords  |-> << <<"h","a","r","d","w","a","r","e">>, <<"d","e","v","i","c","e">>, <<"l","a","p","t","o","p">>, <<"e","n","d","p","o","i","n","t">> >>,
      questions |-> << "Can I use my personal device for work?",
                       "How are company devices managed?",
                       "What should I do if my laptop is lost?" >> ],
    [ keywords  |-> << <<"v","p","n">>, <<"n","e","t","w","o","r","k">>, <<"w","i","-","f","i">>, <<"r","e","m","o","t","e"," ","a","c","c","e","s","s">> >>,
      questions |-> << "How do I access VPN?",
                       "Can I bypass VPN on trusted networks?",
                       "Who do I contact for network issues?" >> ],
    [ keywords  |-> << <<"s","e","c","u","r","i","t","y">>, <<"i","n","c","i","d","e","n","t">>, <<"b","r","e","a","c","h">>, <<"m","a","l","w","a","r","e">> >>,
      questions |-> << "How do I report a security incident?",
                       "What happens after an incident is reported?",
                       "How are incidents prioritized?" >> ],
    [ keywords  |-> << <<"d","a","t","a">>, <<"e","n","c","r","y","p","t","i","o","n">>, <<"c","l","a","s","s","i","f","i","c","a","t","i","o","n">>, <<"s","t","o","r","a","g","e">> >>,
      questions |-> << "How is company data classified?",
                       "Where can sensitive data be stored?",
                       "Is encryption required for all data?" >> ],
    [ keywords  |-> << <<"o","n","b","o","a","r","d","i","n","g">>, <<"o","f","f","b","o","a","r","d","i","n","g">>, <<"t","e","r","m","i","n","a","t","i","o","n">>, <<"r","e","s","i","g","n","a","t","i","o","n">> >>,
      questions |-> << "What happens to system access when an employee leaves?",
                       "How is access revoked after resignation?" >> ]
>>

FALLBACK_FOLLOWUPS ==
    { "What services does the IT Helpdesk provide?",
      "How can I contact IT support?",
      "What issues are not supported by IT?" }

\* the set `followups` after the eight blocks and the fallback, t being the
\* text the keywords are looked up in
FollowupSet(t) ==
    LET matched == UNION { ToSet(FollowupRules[i].questions) :
                           i \in { j \in 1..Len(FollowupRules) :
                                   AnyIn(FollowupRules[j].keywords, t) } }
    IN  IF matched = {} THEN FALLBACK_FOLLOWUPS ELSE matched

Min(a, b) == IF a < b THEN a ELSE b

\* the lists of n distinct elements of S
Arrangements(S, n) ==
    { s \in [1..n -> S] : \A i, j \in 1..n : i # j => s[i] # s[j] }

\* variant: [:4]
TruncatedOneLate(S) == Arrangements(S, Min(FOLLOWUP_LIMIT + 1, Cardinality(S)))

\* list(S)[:3].  A set of str iterates in the order of the process's string
\* hashes (randomised per process), so every order is an outcome: the result
\* is one of the lists of the first three elements of some order of S.
Truncated(S) == Arrangements(S, Min(FOLLOWUP_LIMIT, Cardinality(S)))

\* variant: without context.lower()
generate_followups_case_sensitive(ctx) == Truncated(FollowupSet(ctx))

\* the possible return values of generate_followups(context)
generate_followups(ctx) == Truncated(FollowupSet(lower(ctx)))

---------------------------------------------------------------------------
(* extract_explanations *)

\* the thirteen `if any(k in t ...)` blocks of the loop body, in source order
ExplanationRules == <<
    [ keywords |-> << <<"p","a","s","s","w","o","r","d">>, <<"a","u","t","h","e","n","t","i","c","a","t","i","o","n">>, <<"m","f","a">>, <<"i","d","e","n","t","i","t","y">> >>,
      label    |-> "IT Policy → Identity & Access Management" ],
    [ keywords |-> << <<"p","r","i","v","i","l","e","g","e","d">>, <<"a","d","m","i","n">>, <<"e","l","e","v","a","t","e","d"," ","a","c","c","e","s","s">> >>,
      label    |-> "IT Policy → Privileged Access Control" ],
    [ keywords |-> << <<"s","o","f","t","w","a","r","e">>, <<"a","p","p","l","i","c","a","t","i","o","n">>, <<"l","i","c","e","n","s","e">>, <<"i","n","s","t","a","l","l","a","t","i","o","n">> >>,
      label    |-> "IT Policy → Software Installation & Licensing" ],
    [ keywords |-> << <<"h","a","r","d","w","a","r","e">>, <<"d","e","v","i","c","e">>, <<"l","a","p","t","o","p">>, <<"e","n","d","p","o","i","n","t">> >>,
      label    |-> "IT Policy → Hardware & Device Management" ],
    [ keywords |-> << <<"v","p","n">>, <<"n","e","t","w","o","r","k">>, <<"w","i","-","f","i">>, <<"r","e","m","o","t","e"," ","a","c","c","e","s","s">> >>,
      label    |-> "IT Policy → Network & Remote Access" ],
    [ keywords |-> << <<"e","m","a","i","l">>, <<"m","e","s","s","a","g","i","n","g">>, <<"c","o","l","l","a","b","o","r","a","t","i","o","n">> >>,
      label    |-> "IT Policy → Email & Collaboration Tools" ],
    [ keywords |-> << <<"d","a","t","a">>, <<"e","n","c","r","y","p","t","i","o","n">>, <<"c","l","a","s","s","i","f","i","c","a","t","i","o","n">>, <<"s","t","o","r","a","g","e">> >>,
      label    |-> "IT Policy → Data Protection & Handling" ],
    [ keywords |-> << <<"s","e","c","u","r","i","t","y">>, <<"i","n","c","i","d","e","n","t">>, <<"b","r","e","a","c","h">>, <<"m","a","l","w","a","r","e">> >>,
      label    |-> "IT Policy → Security & Incident Management" ],
    [ keywords |-> << <<"c","h","a","n","g","e"," ","m","a","n","a","g","e","m","e","n","t">>, <<"p","a","t","c","h">>, <<"m","a","i","n","t","e","n","a","n","c","e">> >>,
      label    |-> "IT Policy → Change & Operations Management" ],
    [ keywords |-> << <<"a","u","d","i","t">>, <<"c","o","m","p","l","i","a","n","c","e">>, <<"m","o","n","i","t","o","r","i","n","g">>, <<"l","o","g","g","i","n","g">> >>,
      label    |-> "IT Policy → Compliance & Audit" ],
    [ keywords |-> << <<"a","c","c","e","p","t","a","b","l","e"," ","u","s","e">>, <<"p","e","r","s","o","n","a","l"," ","u","s","e">>, <<"m","i","s","u","s","e">> >>,
      label    |-> "IT Policy → Acceptable Use" ],
    [ keywords |-> << <<"o","n","b","o","a","r","d","i","n","g">>, <<"o","f","f","b","o","a","r","d","i","n","g">>, <<"t","e","r","m","i","n","a","t","i","o","n">>, <<"r","e","s","i","g","n","a","t","i","o","n">> >>,
      label    |-> "IT Policy → User Lifecycle Management" ],
    [ keywords |-> << <<"e","x","c","e","p","t","i","o","n">>, <<"v","i","o","l","a","t","i","o","n">>, <<"d","i","s","c","i","p","l","i","n","a","r","y">>, <<"e","n","f","o","r","c","e","m","e","n","t">> >>,
      label    |-> "IT Policy → Policy Enforcement & Exceptions" ]
>>

\* the labels one chunk adds to `explanations`
ChunkLabels(text) ==
    { ExplanationRules[i].label :
      i \in { j \in 1..Len(ExplanationRules) :
              AnyIn(ExplanationRules[j].keywords, lower(text)) } }

\* variant: a chunk that matches nothing adds a default label
extract_explanations_with_default(chunks) ==
    UNION { IF ChunkLabels(chunks[n]) = {} THEN {"IT Policy → General"}
            ELSE ChunkLabels(chunks[n]) : n \in 1..Len(chunks) }

\* the elements of the list extract_explanations(chunks) returns (a list made
\* from a set: each label once, in hash order)
extract_explanations(chunks) ==
    UNION { ChunkLabels(chunks[n]) : n \in 1..Len(chunks) }

---------------------------------------------------------------------------
(* The chat handler's own steps *)

\* variant: without strip()
normalize_lower_only(m) == lower(m)

\* req.message.strip().lower()
normalize(m) == lower(strip(m))

is_greeting(u) == u \in GREETINGS

\* variant: score >= SIMILARITY_THRESHOLD
score_filter_inclusive(rs) == SelectSeq(rs, LAMBDA p : p[2] >= SIMILARITY_THRESHOLD)

\* [(doc, score) for doc, score in results if score > SIMILARITY_THRESHOLD]
score_filter(rs) == SelectSeq(rs, LAMBDA p : p[2] > SIMILARITY_THRESHOLD)

RECURSIVE SumScores(_)
SumScores(ps) == IF ps = <<>> THEN 0 ELSE Head(ps)[2] + SumScores(Tail(ps))

\* variant: divided by k
average_over_k(flt) == [num |-> SumScores(flt), den |-> SEARCH_K]

\* sum(score for _, score in filtered) / len(filtered)
average(flt) == [num |-> SumScores(flt), den |-> Len(flt)]

\* round(avg_score, 3), in units of 0.001: the nearest multiple.  A mean that
\* lies halfway in fixed point is a binary float just above or just below the
\* halfway point, so both neighbours are outcomes.
round3(avg) ==
    LET unit == 10 * avg.den
        q    == avg.num \div unit
        rem  == avg.num % unit
    IN  IF 2 * rem < unit THEN {q}
        ELSE IF 2 * rem > unit THEN {q + 1}
        ELSE {q, q + 1}

\* variant: without str(e)
error_response_fixed(e) == [response |-> ERROR_PREFIX]

\* except Exception as e: return {"response": f"Error processing your request: {str(e)}"}
error_response(e) == [response |-> ERROR_PREFIX \o e]

---------------------------------------------------------------------------
(* Inputs of the chat handler *)

MaxPad == 1

PAD_CHARS == {" ", "\n"}

\* runs of whitespace of up to MaxPad characters
Pads == UNION { [1..n -> PAD_CHARS] : n \in 0..MaxPad }

GreetingSpellings ==
    { <<"h","i">>, <<"H","I">>, <<"H","e","l","l","o">>, <<"h","E","y">>, <<"G","o","o","d"," ","M","o","r","n","i","n","g">>, <<"g","o","o","d"," ","e","v","e","n","i","n","g">> }

\* messages that are no greeting
Questions ==
    { <<" ","G","o","o","d"," "," ","m","o","r","n","i","n","g">>, <<"H","o","w"," ","d","o"," ","I"," ","r","e","a","c","h"," ","t","h","e"," ","V","P","N","?">> }

Messages == { p \o g \o q : p \in Pads, q \in Pads, g \in GreetingSpellings } \cup Questions

\* page_content of the chunks in the collection
Corpus ==
    { <<"C","o","n","n","e","c","t"," ","t","h","r","o","u","g","h"," ","t","h","e"," ","V","P","N">>, <<"E","m","a","i","l"," ","t","h","e"," ","h","e","l","p","d","e","s","k">>, <<"P","r","i","n","t","e","r"," ","t","o","n","e","r"," ","i","s"," ","i","n"," ","r","o","o","m"," ","4">> }

Scores == {2500, 2501, 5000, 5004, 6500, 6505}

\* what similarity_search_with_score(req.message, k=3) can return: up to k
\* rows of the collection, each with its score, in any order
SearchOutcomes ==
    { rs \in UNION { [1..n -> Corpus \X Scores] : n \in 0..SEARCH_K } :
        \A i, j \in 1..Len(rs) : i # j => rs[i][1] # rs[j][1] }

ExceptionTexts == {"connection refused", ""}

AnswerTexts == {"Use the company VPN client."}

---------------------------------------------------------------------------
(* The chat handler *)

Returned == {"ret_greeting", "ret_no_results", "ret_no_match", "ret_answer", "ret_error"}

NoAverage == [num |-> 0, den |-> 1]

Init ==
    /\ pc = "idle"
    /\ message = <<>>
    /\ user_input = <<>>
    /\ results = <<>>
    /\ filtered = <<>>
    /\ avg_score = NoAverage
    /\ confidence = ""
    /\ relevant_docs = <<>>
    /\ context = <<>>
    /\ followups = <<>>
    /\ explanations = {}
    /\ response = [response |-> ""]
    /\ caught = <<>>
    /\ searchCalls = 0
    /\ llmCalls = 0

\* chat(req) up to the greeting short-circuit
Chat ==
    /\ pc = "idle"
    /\ \E m \in Messages :
         /\ message' = m
         /\ user_input' = normalize(m)
         /\ IF is_greeting(normalize(m))
            THEN /\ response' = [response |-> GREETING_TEXT]
                 /\ pc' = "ret_greeting"
            ELSE /\ response' = response
                 /\ pc' = "search"
    /\ UNCHANGED <<results, filtered, avg_score, confidence, relevant_docs, context,
                   followups, explanations, caught, searchCalls, llmCalls>>

\* the search returns rs; the handler runs on to a refusal or up to the agent
SearchReturns ==
    /\ pc = "search"
    /\ searchCalls' = searchCalls + 1
    /\ \E rs \in SearchOutcomes :
         /\ results' = rs
         /\ IF rs = <<>>
            THEN /\ response' = [response |-> REFUSAL_TEXT]
                 /\ pc' = "ret_no_results"
                 /\ UNCHANGED <<filtered, avg_score, confidence, relevant_docs, context>>
            ELSE IF score_filter(rs) = <<>>
            THEN /\ filtered' = <<>>
                 /\ response' = [response |-> REFUSAL_TEXT]
                 /\ pc' = "ret_no_match"
                 /\ UNCHANGED <<avg_score, confidence, relevant_docs, context>>
            ELSE LET flt  == score_filter(rs)
                     avg  == average(flt)
                     docs == [i \in 1..Len(flt) |-> flt[i][1]]
                 IN  /\ filtered' = flt
                     /\ avg_score' = avg
                     /\ confidence' = map_confidence(avg)
                     /\ relevant_docs' = docs
                     /\ IF docs = <<>>
                        THEN /\ response' = [response |-> REFUSAL_TEXT]
                             /\ pc' = "ret_no_match"
                             /\ context' = context
                        ELSE /\ context' = Join(<<"\n", "\n">>, docs)
                             /\ response' = response
                             /\ pc' = "agent"
    /\ UNCHANGED <<message, user_input, followups, explanations, caught, llmCalls>>

\* the search raises
SearchRaises ==
    /\ pc = "search"
    /\ searchCalls' = searchCalls + 1
    /\ \E e \in ExceptionTexts :
         /\ caught' = <<"similarity_search_with_score", e>>
         /\ response' = error_response(e)
    /\ pc' = "ret_error"
    /\ UNCHANGED <<message, user_input, results, filtered, avg_score, confidence,
                   relevant_docs, context, followups, explanations, llmCalls>>

\* agent.invoke returns; the handler assembles the full response
AgentReturns ==
    /\ pc = "agent"
    /\ llmCalls' = llmCalls + 1
    /\ explanations' = extract_explanations(relevant_docs)
    /\ \E answer_text \in AnswerTexts :
       \E fu \in generate_followups(context) :
       \E score \in round3(avg_score) :
         /\ followups' = fu
         /\ response' = [ response         |-> answer_text,
                          followups        |-> fu,
                          confidence       |-> confidence,
                          confidence_score |-> score,
                          explanations     |-> explanations' ]
    /\ pc' = "ret_answer"
    /\ UNCHANGED <<message, user_input, results, filtered, avg_score, confidence,
                   relevant_docs, context, caught, searchCalls>>

\* create_agent raises (the model was never called) or agent.invoke raises
AgentRaises ==
    /\ pc = "agent"
    /\ \E site \in {"create_agent", "agent.invoke"} : \E e \in ExceptionTexts :
         /\ llmCalls' = IF site = "agent.invoke" THEN llmCalls + 1 ELSE llmCalls
         /\ caught' = <<site, e>>
         /\ response' = error_response(e)
    /\ pc' = "ret_error"
    /\ UNCHANGED <<message, user_input, results, filtered, avg_score, confidence,
                   relevant_docs, context, followups, explanations, searchCalls>>

\* the response is sent; the next request starts with fresh locals
Return ==
    /\ pc \in Returned
    /\ pc' = "idle"
    /\ message' = <<>>
    /\ user_input' = <<>>
    /\ results' = <<>>
    /\ filtered' = <<>>
    /\ avg_score' = NoAverage
    /\ confidence' = ""
    /\ relevant_docs' = <<>>
    /\ context' = <<>>
    /\ followups' = <<>>
    /\ explanations' = {}
    /\ response' = [response |-> ""]
    /\ caught' = <<>>
    /\ searchCalls' = 0
    /\ llmCalls' = 0

Next ==
    \/ Chat
    \/ SearchReturns
    \/ SearchRaises
    \/ AgentReturns
    \/ AgentRaises
    \/ Return

Spec == Init /\ [][Next]_vars

---------------------------------------------------------------------------
(* map_confidence on its own: every mean of one to k scores *)

MaxScore == 7000

Means == { [num |-> n, den |-> d] : n \in 0..MaxScore, d \in 1..SEARCH_K }

InitConfidence ==
    /\ pc = "map_confidence"
    /\ avg_score \in Means
    /\ message = <<>>
    /\ user_input = <<>>
    /\ results = <<>>
    /\ filtered = <<>>
    /\ confidence = ""
    /\ relevant_docs = <<>>
    /\ context = <<>>
    /\ followups = <<>>
    /\ explanations = {}
    /\ response = [response |-> ""]
    /\ caught = <<>>
    /\ searchCalls = 0
    /\ llmCalls = 0

\* confidence = map_confidence(avg_score)
MapConfidence ==
    /\ pc = "map_confidence"
    /\ confidence' = map_confidence(avg_score)
    /\ pc' = "mapped"
    /\ UNCHANGED <<message, user_input, results, filtered, avg_score, relevant_docs,
                   context, followups, explanations, response, caught, searchCalls,
                   llmCalls>>

NextConfidence == MapConfidence

SpecConfidence == InitConfidence /\ [][NextConfidence]_vars

---------------------------------------------------------------------------
(* The classifier on its own: the context, the follow-ups and the labels   *)
(* of a list of one to k retrieved chunks                                  *)

ChunkWords ==
    { <<"P","a","s","s","w","o","r","d">>, <<"e","l","e","v","a","t","e","d"," ","a","c","c","e","s","s">>, <<"e","l","e","v","a","t","e","d">>, <<"a","c","c","e","s","s">>, <<"V","P","N">>,
      <<"e","m","a","i","l">>, <<"m","e","t","a","d","a","t","a">>, <<"r","e","s","i","g","n","a","t","i","o","n">>, <<"p","r","i","n","t","e","r">> }

\* every keyword of the explanation rules, as a chunk of its own
KeywordChunks ==
    UNION { { <<ExplanationRules[i].keywords[j]>> :
              j \in 1..Len(ExplanationRules[i].keywords) } :
            i \in 1..Len(ExplanationRules) }

\* three chunks that between them touch every category
Digest ==
    << <<"A","d","m","i","n"," ","p","a","s","s","w","o","r","d"," ","a","n","d"," ","s","o","f","t","w","a","r","e"," ","o","n"," ","a"," ","l","a","p","t","o","p"," ","v","i","a"," ","V","P","N">>,
       <<"E","m","a","i","l"," ","d","a","t","a"," ","s","e","c","u","r","i","t","y"," ","p","a","t","c","h"," ","a","u","d","i","t">>,
       <<"M","i","s","u","s","e"," ","a","f","t","e","r"," ","r","e","s","i","g","n","a","t","i","o","n"," ","i","s"," ","a"," ","v","i","o","l","a","t","i","o","n">> >>

ChunkLists ==
    UNION { [1..n -> ChunkWords] : n \in 1..SEARCH_K } \cup KeywordChunks \cup {Digest}

InitClassify ==
    /\ pc = "classify"
    /\ relevant_docs \in ChunkLists
    /\ message = <<>>
    /\ user_input = <<>>
    /\ results = <<>>
    /\ filtered = <<>>
    /\ avg_score = NoAverage
    /\ confidence = ""
    /\ context = <<>>
    /\ followups = <<>>
    /\ explanations = {}
    /\ response = [response |-> ""]
    /\ caught = <<>>
    /\ searchCalls = 0
    /\ llmCalls = 0

\* context = "\n\n".join(relevant_docs); followups = generate_followups(context);
\* explanations = extract_explanations(relevant_docs)
Classify ==
    /\ pc = "classify"
    /\ context' = Join(<<"\n", "\n">>, relevant_docs)
    /\ explanations' = extract_explanations(relevant_docs)
    /\ pc' = "classified"
    /\ \E fu \in generate_followups(context') : followups' = fu
    /\ UNCHANGED <<message, user_input, results, filtered, avg_score, confidence,
                   relevant_docs, response, caught, searchCalls, llmCalls>>

NextClassify == Classify

SpecClassify == InitClassify /\ [][NextClassify]_vars

---------------------------------------------------------------------------
(* generate_followups called on one context by more than one process *)

MaxReplayChunks == 2

ReplayContexts ==
    { Join(<<"\n", "\n">>, cs) :
      cs \in UNION { [1..n -> ChunkWords] : n \in 1..MaxReplayChunks } }

InitReplay ==
    /\ pc = "followups"
    /\ context \in ReplayContexts
    /\ message = <<>>
    /\ user_input = <<>>
    /\ results = <<>>
    /\ filtered = <<>>
    /\ avg_score = NoAverage
    /\ confidence = ""
    /\ relevant_docs = <<>>
    /\ followups = <<>>
    /\ explanations = {}
    /\ response = [response |-> ""]
    /\ caught = <<>>
    /\ searchCalls = 0
    /\ llmCalls = 0

\* followups = generate_followups(context), in some process
FirstCall ==
    /\ pc = "followups"
    /\ \E fu \in generate_followups(context) : followups' = fu
    /\ pc' = "followups_returned"
    /\ UNCHANGED <<message, user_input, results, filtered, avg_score, confidence,
                   relevant_docs, context, explanations, response, caught, searchCalls,
                   llmCalls>>

\* the same context handed to generate_followups in another process, whose
\* string hashes are seeded afresh (a second call in the same process iterates
\* the same set in the same order and changes nothing)
CallInOtherProcess ==
    /\ pc = "followups_returned"
    /\ \E fu \in generate_followups(context) : followups' = fu
    /\ UNCHANGED <<pc, message, user_input, results, filtered, avg_score, confidence,
                   relevant_docs, context, explanations, response, caught, searchCalls,
                   llmCalls>>

NextReplay == FirstCall \/ CallInOtherProcess

SpecReplay == InitReplay /\ [][NextReplay]_vars

---------------------------------------------------------------------------
(* Properties *)

\* C1: when the vector search, create_agent or agent.invoke raises, the
\* handler returns at its `except` branch, and what it returns has the single
\* field `response`, holding "Error processing your request: " followed by
\* the exception's message; no follow-ups, confidence or explanations.
C1_ExceptionBecomesErrorResponse ==
    caught # <<>> =>
        /\ pc = "ret_error"
        /\ DOMAIN response = {"response"}
        /\ response.response = "Error processing your request: " \o caught[2]

C1_Witness ==
    /\ pc = "ret_error"
    /\ searchCalls = 1
    /\ llmCalls = 1
    /\ caught = <<"agent.invoke", "connection refused">>
    /\ response = [response |-> "Error processing your request: connection refused"]

\* the search of this request returned (it did not raise)
SearchReturned ==
    /\ searchCalls = 1
    /\ (caught = <<>> \/ caught[1] # "similarity_search_with_score")

\* C2: when the search returns no result, or only results whose score is at
\* most 0.25, the handler returns exactly the refusal, with the single field
\* `response`, and the model is not called in that request.
C2_NothingRelevantIsRefused ==
    (SearchReturned /\ \A i \in 1..Len(results) : results[i][2] <= 2500) =>
        /\ pc \in {"ret_no_results", "ret_no_match"}
        /\ response = [response |-> "I can only help with IT Helpdesk related questions."]
        /\ llmCalls = 0

C2_Witness ==
    /\ pc = "ret_no_match"
    /\ Len(results) = SEARCH_K
    /\ \A i \in 1..Len(results) : results[i][2] = 2500
    /\ response = [response |-> REFUSAL_TEXT]

\* C3: a message that, stripped of leading and trailing whitespace and
\* lower-cased, is one of the five greetings gets the fixed greeting, with the
\* single field `response`, and neither the search nor the model is called.
C3_GreetingShortCircuit ==
    lower(strip(message)) \in GREETINGS =>
        /\ pc = "ret_greeting"
        /\ response =
             [response |-> "Hello! How can I assist you with IT Helpdesk related queries?"]
        /\ searchCalls = 0
        /\ llmCalls = 0

C3_Witness ==
    /\ pc = "ret_greeting"
    /\ Head(message) \in WHITESPACE
    /\ message[Len(message)] \in WHITESPACE
    /\ \E i \in 1..Len(message) : message[i] \in DOMAIN UPPER_TO_LOWER
    /\ response = [response |-> GREETING_TEXT]

\* C4: map_confidence gives "High" for a mean above 0.65, "Medium" for a mean
\* above 0.50 and at most 0.65, "Low" for a mean of at most 0.50; so exactly
\* 0.65 is "Medium" and exactly 0.50 is "Low".
C4_ConfidenceBands ==
    pc = "mapped" =>
        LET n == avg_score.num
            d == avg_score.den
        IN  /\ n > 6500 * d => confidence = "High"
            /\ (5000 * d < n /\ n <= 6500 * d) => confidence = "Medium"
            /\ n <= 5000 * d => confidence = "Low"

C4_Witness ==
    /\ pc = "mapped"
    /\ avg_score = [num |-> 6500, den |-> 1]
    /\ confidence = "Medium"

\* the results with a score above 0.25, in the order of the results
PassingResults == SelectSeq(results, LAMBDA p : p[2] > 2500)

PassingDocs == [i \in 1..Len(PassingResults) |-> PassingResults[i][1]]

PassingSum == SumScores(PassingResults)

Abs(x) == IF x < 0 THEN -x ELSE x

\* C5: in an answered response the documents behind the context, the
\* follow-ups and the explanations are exactly the results scored above 0.25,
\* and confidence_score is the mean of exactly those scores, rounded to three
\* decimals (a nearest multiple of 0.001).
C5_OnlyPassingResultsCount ==
    pc = "ret_answer" =>
        /\ relevant_docs = PassingDocs
        /\ context = Join(<<"\n", "\n">>, PassingDocs)
        /\ response.explanations = extract_explanations(PassingDocs)
        /\ response.followups \in generate_followups(Join(<<"\n", "\n">>, PassingDocs))
        /\ 2 * Abs(10 * Len(PassingResults) * response.confidence_score - PassingSum)
             <= 10 * Len(PassingResults)

C5_Witness ==
    /\ pc = "ret_answer"
    /\ Len(results) = 3
    /\ results[2][2] = 2500
    /\ Len(relevant_docs) = 2
    /\ PassingSum = 2501 + 6505
    /\ response.confidence_score = 450

\* C6: generate_followups returns at most three questions, and returns the
\* three generic questions when no keyword of its categories occurs in the
\* lower-cased context.
C6_AtMostThreeFollowups ==
    pc = "classified" =>
        /\ Len(followups) <= 3
        /\ (\A i \in 1..Len(FollowupRules) : ~AnyIn(FollowupRules[i].keywords, lower(context)))
             => ToSet(followups) = { "What services does the IT Helpdesk provide?",
                                     "How can I contact IT support?",
                                     "What issues are not supported by IT?" }

C6_Witness ==
    /\ pc = "classified"
    /\ Len(relevant_docs) = 2
    /\ Cardinality(FollowupSet(lower(context))) = 6
    /\ Len(followups) = 3
    /\ ToSet(followups) \cap FALLBACK_FOLLOWUPS = {}

\* the questions of the follow-up category that has the keywords of the
\* explanation category `label`; empty when there is none
QuestionPool(label) ==
    UNION { ToSet(FollowupRules[i].questions) :
            i \in { k \in 1..Len(FollowupRules) :
                    \E j \in 1..Len(ExplanationRules) :
                       /\ ExplanationRules[j].label = label
                       /\ ExplanationRules[j].keywords = FollowupRules[k].keywords } }

\* C7 as claimed: when extract_explanations returns a label, every follow-up
\* comes from the question pool of a returned label, and the generic questions
\* appear only when no label is returned.
C7_FollowupsFromReturnedLabels ==
    pc = "classified" =>
        /\ explanations # {} =>
             ToSet(followups) \subseteq UNION { QuestionPool(l) : l \in explanations }
        /\ ToSet(followups) \cap FALLBACK_FOLLOWUPS # {} => explanations = {}

\* C7 amended: five of the thirteen explanation categories (email, change,
\* compliance, acceptable use, enforcement) have no question pool.  When a
\* returned label has a pool, every follow-up comes from the pool of a
\* returned label; when none has (in particular when only those five match),
\* the follow-ups are the three generic questions.
C7_FollowupsFromPooledLabels ==
    pc = "classified" =>
        LET pooled == { l \in explanations : QuestionPool(l) # {} }
        IN  /\ pooled # {} =>
                 ToSet(followups) \subseteq UNION { QuestionPool(l) : l \in pooled }
            /\ pooled = {} => ToSet(followups) = FALLBACK_FOLLOWUPS

C7_Witness ==
    /\ pc = "classified"
    /\ explanations = { "IT Policy → Email & Collaboration Tools",
                        "IT Policy → Network & Remote Access" }
    /\ ToSet(followups) = QuestionPool("IT Policy → Network & Remote Access")

\* C8: two calls of generate_followups with the same context return the same
\* set of questions, whichever process makes them.
C8_SameContextSameFollowups ==
    [][(pc = "followups_returned" /\ pc' = "followups_returned" /\ context' = context)
         => ToSet(followups') = ToSet(followups)]_vars

KeywordSetsDisjoint ==
    \A i, j \in 1..Len(ExplanationRules) :
        i # j => ToSet(ExplanationRules[i].keywords)
                   \cap ToSet(ExplanationRules[j].keywords) = {}

\* C9 as claimed: the labels come from a closed set of twelve, so no result
\* holds more than twelve different labels; the keyword sets of different
\* categories are disjoint.
C9_TwelveLabels ==
    /\ Cardinality(explanations) <= 12
    /\ KeywordSetsDisjoint

POLICY_LABELS ==
    { "IT Policy → Identity & Access Management",
      "IT Policy → Privileged Access Control",
      "IT Policy → Software Installation & Licensing",
      "IT Policy → Hardware & Device Management",
      "IT Policy → Network & Remote Access",
      "IT Policy → Email & Collaboration Tools",
      "IT Policy → Data Protection & Handling",
      "IT Policy → Security & Incident Management",
      "IT Policy → Change & Operations Management",
      "IT Policy → Compliance & Audit",
      "IT Policy → Acceptable Use",
      "IT Policy → User Lifecycle Management",
      "IT Policy → Policy Enforcement & Exceptions" }

\* C9 amended: every label extract_explanations returns belongs to a closed
\* set of thirteen labels, and the keyword sets of different categories are
\* disjoint.
C9_ThirteenLabels ==
    /\ Cardinality(POLICY_LABELS) = 13
    /\ explanations \subseteq POLICY_LABELS
    /\ KeywordSetsDisjoint

C9_Witness ==
    /\ pc = "classified"
    /\ relevant_docs = Digest
    /\ explanations = POLICY_LABELS

\* C10 as claimed: the returned label and the returned (rounded) score agree
\* with the bands: "High" with a score above 0.65, "Medium" with a score above
\* 0.50 and at most 0.65, "Low" with a score of at most 0.50.
C10_LabelMatchesRoundedScore ==
    pc = "ret_answer" =>
        /\ response.confidence = "High" => response.confidence_score > 650
        /\ response.confidence = "Medium" =>
             (500 < response.confidence_score /\ response.confidence_score <= 650)
        /\ response.confidence = "Low" => response.confidence_score <= 500

\* C10 amended: the label agrees with the bands on the unrounded mean of the
\* passing scores; the rounded score may sit on the lower boundary of the
\* label's band: "High" with a score of at least 0.65, "Medium" with a score
\* of at least 0.50 and at most 0.65, "Low" with a score of at most 0.50.
C10_LabelMatchesMean ==
    pc = "ret_answer" =>
        LET n == PassingSum
            d == Len(PassingResults)
            r == response.confidence_score
        IN  /\ response.confidence = "High" => (n > 6500 * d /\ r >= 650)
            /\ response.confidence = "Medium" =>
                 (5000 * d < n /\ n <= 6500 * d /\ 500 <= r /\ r <= 650)
            /\ response.confidence = "Low" => (n <= 5000 * d /\ r <= 500)
            /\ response.confidence \in {"High", "Medium", "Low"}

C10_Witness ==
    /\ pc = "ret_answer"
    /\ response.confidence = "Medium"
    /\ PassingSum = 5004
    /\ Len(PassingResults) = 1
    /\ response.confidence_score = 500

====
